---- MODULE Spec2Model ----
(***************************************************************************)
(* wrg_explorer.py: a Streamlit view function `main` that is re-executed   *)
(* top to bottom on every interaction, plus the upload callback            *)
(* `on_wrg_uploaded`.  Session state holds the uploaded buffer (key        *)
(* "uploaded"), the parsed Grid (key "wrg") and the widgets' values.       *)
(*                                                                         *)
(* Text is a sequence of one-character strings, arrays are functions over  *)
(* 0-based index ranges, coordinates are integers (exact arithmetic; the   *)
(* program's floats round, the model's numbers do not).                    *)
(***************************************************************************)
EXTENDS Integers, Sequences, FiniteSets

\* ------------------------------------------------------------- bounds
MaxNx == 2
MaxNy == 2
MaxSectors == 2
NameSectors == 101

\* An optional value is a sequence of length 0 (Python's None, or a missing
\* session key) or 1.
None == <<>>
Some(x) == <<x>>

\* ------------------------------------------------------------- text
UpperCase == <<"A","B","C","D","E","F","G","H","I","J","K","L","M",
               "N","O","P","Q","R","S","T","U","V","W","X","Y","Z">>
LowerCase == <<"a","b","c","d","e","f","g","h","i","j","k","l","m",
               "n","o","p","q","r","s","t","u","v","w","x","y","z">>
Digits == <<"0","1","2","3","4","5","6","7","8","9">>
Whitespace == {" ", "\t", "\n"}

\* str.lower() on one character
LowerChar(c) ==
  IF \E i \in 1..Len(UpperCase) : UpperCase[i] = c
  THEN LowerCase[CHOOSE i \in 1..Len(UpperCase) : UpperCase[i] = c]
  ELSE c

\* str.lower()
Lower(s) == [i \in 1..Len(s) |-> LowerChar(s[i])]

\* str.split() with no argument: split on runs of whitespace, no empty words
RECURSIVE SplitFrom(_, _, _, _)
SplitFrom(s, i, word, acc) ==
  IF i > Len(s)
  THEN IF word = <<>> THEN acc ELSE Append(acc, word)
  ELSE IF s[i] \in Whitespace
       THEN SplitFrom(s, i + 1, <<>>, IF word = <<>> THEN acc ELSE Append(acc, word))
       ELSE SplitFrom(s, i + 1, Append(word, s[i]), acc)

Split(s) == SplitFrom(s, 1, <<>>, <<>>)

\* sep.join(words)
RECURSIVE Join(_, _)
Join(sep, words) ==
  IF words = <<>> THEN <<>>
  ELSE IF Len(words) = 1 THEN words[1]
  ELSE words[1] \o sep \o Join(sep, Tail(words))

\* str(n) for n >= 0
RECURSIVE Str(_)
Str(n) == IF n < 10 THEN <<Digits[n + 1]>> ELSE Str(n \div 10) \o <<Digits[(n % 10) + 1]>>

\* format spec "0>2": right-align in a field of width 2 filled with "0"
RECURSIVE PadLeft(_, _, _)
PadLeft(s, fill, width) ==
  IF Len(s) >= width THEN s ELSE PadLeft(<<fill>> \o s, fill, width)

\* the sector written without padding
FormatSectorUnpadded(sector) == Str(sector)

FormatSector(sector) == PadLeft(Str(sector), "0", 2)

TifSuffix == <<".","t","i","f">>

\* lines 131-135: the default download file name of a variable and an optional sector
DefaultFileName(variable, sector) ==
  LET slug == Join(<<"_">>, Split(Lower(variable)))
  IN  IF sector = None
      THEN slug \o TifSuffix
      ELSE slug \o <<"_">> \o FormatSector(sector[1]) \o TifSuffix

\* ------------------------------------------------------------- the options
Elevation == <<"E","l","e","v","a","t","i","o","n">>
GlobalScale == <<"G","l","o","b","a","l"," ","s","c","a","l","e">>
GlobalShape == <<"G","l","o","b","a","l"," ","s","h","a","p","e">>
GlobalSpeed == <<"G","l","o","b","a","l"," ","s","p","e","e","d">>
DirectionalScale == <<"D","i","r","e","c","t","i","o","n","a","l"," ","s","c","a","l","e">>
DirectionalShape == <<"D","i","r","e","c","t","i","o","n","a","l"," ","s","h","a","p","e">>
DirectionalSpeed == <<"D","i","r","e","c","t","i","o","n","a","l"," ","s","p","e","e","d">>
DirectionalFrequency ==
  <<"D","i","r","e","c","t","i","o","n","a","l"," ","f","r","e","q","u","e","n","c","y">>

\* the selectbox's options, in order (lines 60-69)
VariableOptions ==
  <<Elevation, GlobalScale, GlobalShape, GlobalSpeed,
    DirectionalScale, DirectionalShape, DirectionalSpeed, DirectionalFrequency>>

\* the slider asked for whatever the variable
IsDirectionalAlways(variable) == variable \in { VariableOptions[i] : i \in 1..Len(VariableOptions) }

IsDirectional(variable) ==
  variable \in {DirectionalScale, DirectionalShape, DirectionalSpeed, DirectionalFrequency}

\* position of a variable among the options, 0-based
VarIndex(variable) == (CHOOSE i \in 1..Len(VariableOptions) : VariableOptions[i] = variable) - 1

\* ------------------------------------------------------------- uploaded files
\* What an uploaded buffer decodes to.  The decoder (WRG.from_file) is a
\* collaborator of the program: a buffer is either malformed or holds a
\* regular grid of nx by ny cells of side cell_size, with nsectors sectors.
SectorCounts == {0, MaxSectors}

\* The kinds of grid a buffer may hold: cell size, storage dtype, whether the
\* extent is measured to the cells' outer edges or to the outermost cell
\* centres, and a seed that makes the grids' numbers differ.
Profiles ==
  { [cell_size |-> 2, dtype |-> "float64", edge |-> TRUE, seed |-> 0],
    [cell_size |-> 3, dtype |-> "float32", edge |-> FALSE, seed |-> 1],
    [cell_size |-> 1, dtype |-> "float16", edge |-> TRUE, seed |-> 2] }

\* dtypes the raster writer accepts; any other makes rio.open raise
SupportedDtypes == {"uint8", "int16", "uint16", "int32", "uint32", "float32", "float64"}

MakeFile(nx, ny, nsectors, p) ==
  [ok |-> TRUE, nx |-> nx, ny |-> ny, nsectors |-> nsectors, cell_size |-> p.cell_size,
   seed |-> p.seed, dtype |-> p.dtype, edge |-> p.edge]

\* the kind of grid uploaded with a given shape: every kind comes with several shapes
ProfileOf(nx, ny) == CHOOSE p \in Profiles : p.seed = (nx + ny) % 3

GoodFiles ==
  { MakeFile(nx, ny, ns, ProfileOf(nx, ny)) : nx \in 1..MaxNx, ny \in 1..MaxNy, ns \in SectorCounts }

BadFile ==
  [ok |-> FALSE, nx |-> 0, ny |-> 0, nsectors |-> 0, cell_size |-> 0, seed |-> 0,
   dtype |-> "float64", edge |-> FALSE]

Files == GoodFiles \cup {BadFile}

\* a grid of one cell with many sectors
ManySectorsFile ==
  MakeFile(1, 1, NameSectors, CHOOSE p \in Profiles : p.seed = 1)

\* the value of one cell: different for every (file seed, variable, row, column, sector)
CellValue(seed, v, r, c, s) ==
  ((((seed * Len(VariableOptions) + v) * (MaxNy + 1) + r) * (MaxNx + 1) + c)
     * (MaxSectors + NameSectors + 1)) + s

Array2D(f, v) ==
  [r \in 0..(f.ny - 1) |-> [c \in 0..(f.nx - 1) |-> CellValue(f.seed, v, r, c, 0)]]

Array3D(f, v) ==
  [r \in 0..(f.ny - 1) |-> [c \in 0..(f.nx - 1) |->
     [s \in 0..(f.nsectors - 1) |-> CellValue(f.seed, v, r, c, s)]]]

\* the extent of a regular grid: the rectangle its cells cover, measured to the
\* cells' outer edges (edge) or to the outermost cell centres (not edge)
GridExtent(f) ==
  LET left == 7 * f.seed - 3
      bottom == 5 - 4 * f.seed
      spanx == IF f.edge THEN f.nx * f.cell_size ELSE (f.nx - 1) * f.cell_size
      spany == IF f.edge THEN f.ny * f.cell_size ELSE (f.ny - 1) * f.cell_size
  IN  <<left, left + spanx, bottom, bottom + spany>>

\* WRG.from_file(buf) for a well-formed buffer: the Grid object
FromFile(f) ==
  [nx |-> f.nx, ny |-> f.ny, nsectors |-> f.nsectors, cell_size |-> f.cell_size,
   hub_height |-> 80 + 20 * f.seed, extent |-> GridExtent(f), dtype |-> f.dtype,
   elev |-> Array2D(f, VarIndex(Elevation)),
   global_scale |-> Array2D(f, VarIndex(GlobalScale)),
   global_shape |-> Array2D(f, VarIndex(GlobalShape)),
   global_speed |-> Array2D(f, VarIndex(GlobalSpeed)),
   scale |-> Array3D(f, VarIndex(DirectionalScale)),
   shape |-> Array3D(f, VarIndex(DirectionalShape)),
   speed |-> Array3D(f, VarIndex(DirectionalSpeed)),
   freq |-> Array3D(f, VarIndex(DirectionalFrequency))]

\* ------------------------------------------------------------- CRS catalogue
\* pyproj.database.query_crs_info(): entries with a name, an authority and a code
CrsCatalogue ==
  { [name |-> "WGS 84", auth_name |-> "EPSG", code |-> "4326"],
    [name |-> "NAD83 Canada Albers", auth_name |-> "ESRI", code |-> "102001"] }

\* the tag built from the entry's display name instead of its authority
CrsTagFromName(pyproj_crs) ==
  IF pyproj_crs = None THEN None
  ELSE Some([authority |-> pyproj_crs[1].name, code |-> pyproj_crs[1].code])

\* rio.crs.CRS.from_authority(auth_name, code) if pyproj_crs else None (lines 117-123)
CrsTag(pyproj_crs) ==
  IF pyproj_crs = None THEN None
  ELSE Some([authority |-> pyproj_crs[1].auth_name, code |-> pyproj_crs[1].code])

\* ------------------------------------------------------------- affine
\* An affine matrix (a, b, c, d, e, f): x = a*col + b*row + c, y = d*col + e*row + f
Translation(xoff, yoff) == <<1, 0, xoff, 0, 1, yoff>>
Scale(sx, sy) == <<sx, 0, 0, 0, sy, 0>>

\* Affine.__mul__: the matrix product m * n
AffineMul(m, n) ==
  <<m[1] * n[1] + m[2] * n[4], m[1] * n[2] + m[2] * n[5], m[1] * n[3] + m[2] * n[6] + m[3],
    m[4] * n[1] + m[5] * n[4], m[4] * n[2] + m[5] * n[5], m[4] * n[3] + m[5] * n[6] + m[6]>>

\* transform * (col, row)
AffineApply(m, col, row) ==
  <<m[1] * col + m[2] * row + m[3], m[4] * col + m[5] * row + m[6]>>

\* the y scale left positive
ExportTransformUnflipped(left, top, cell_size) ==
  AffineMul(Translation(left, top), Scale(cell_size, cell_size))

\* lines 124-125
ExportTransform(left, top, cell_size) ==
  AffineMul(Translation(left, top), Scale(cell_size, 0 - cell_size))

\* ------------------------------------------------------------- arrays
\* a[:, :, 0] whatever the sector
SliceSectorFirst(a, sector) ==
  [r \in DOMAIN a |-> [c \in DOMAIN a[r] |-> a[r][c][0]]]

\* a[:, :, sector]
SliceSector(a, sector) ==
  [r \in DOMAIN a |-> [c \in DOMAIN a[r] |-> a[r][c][sector]]]

\* imdata written as it is
FlipRowsMissing(a) == a

\* imdata[::-1, :]
FlipRows(a) ==
  LET n == Cardinality(DOMAIN a)
  IN  [r \in 0..(n - 1) |-> a[(n - 1) - r]]

\* lines 71-95: the array a variable (and sector) selects
Extract(wrg, variable, sector) ==
  CASE variable = Elevation -> wrg.elev
    [] variable = GlobalScale -> wrg.global_scale
    [] variable = GlobalShape -> wrg.global_shape
    [] variable = GlobalSpeed -> wrg.global_speed
    [] variable = DirectionalScale -> SliceSector(wrg.scale, sector)
    [] variable = DirectionalShape -> SliceSector(wrg.shape, sector)
    [] variable = DirectionalSpeed -> SliceSector(wrg.speed, sector)
    [] variable = DirectionalFrequency -> SliceSector(wrg.freq, sector)

\* lines 45-56: the attribute table
Attrs(wrg) ==
  [hub_height |-> wrg.hub_height, width |-> wrg.nx, height |-> wrg.ny,
   nsectors |-> wrg.nsectors, extent |-> wrg.extent]

\* the grids and the file names, computed once
GridTable == [f \in GoodFiles \cup {ManySectorsFile} |-> FromFile(f)]

NameTable ==
  [i \in 1..Len(VariableOptions) |->
     [sector \in {None} \cup { Some(k) : k \in 0..(MaxSectors + NameSectors) } |->
        DefaultFileName(VariableOptions[i], sector)]]

\* range(wrg.nsectors), the select_slider's options (lines 85, 88, 91, 94)
SliderOptions(wrg) == 0..(wrg.nsectors - 1)

\* lines 109-129: the export file
Export(wrg, imdata, pyproj_crs) ==
  [width |-> wrg.nx, height |-> wrg.ny, count |-> 1, crs |-> CrsTag(pyproj_crs),
   transform |-> ExportTransform(wrg.extent[1], wrg.extent[4], wrg.cell_size),
   dtype |-> wrg.dtype, band1 |-> FlipRows(imdata)]

\* the rows reversed in place, in the Grid's own array
GridAfterExportInPlace(wrg, imdata) == [wrg EXCEPT !.elev = FlipRows(wrg.elev)]

\* lines 109-129: what the Grid is after the export was written.  The writer
\* gets a reversed view of imdata and a buffer of its own; the Grid is only read.
GridAfterExport(wrg, imdata) == wrg

\* ------------------------------------------------------------- the view
\* The widgets' values the session keeps between runs.  A select_slider keeps
\* its value only while its options are the same; a text_input only while its
\* default value is the same.
DefaultWidgets ==
  [variable |-> VariableOptions[1], sector |-> None, slider |-> {},
   crs |-> None, fname |-> None, fdefault |-> <<>>]

\* What one run shows.  status: "stopped" (st.stop() at line 40), "ok", or the
\* exception that ended the run.
EmptyView(status) ==
  [status |-> status, attrs |-> None, variable |-> None, slider |-> None,
   sector |-> None, image |-> None, picker |-> FALSE,
   default_name |-> None, file_name |-> None, download |-> None]

\* lines 34-143: one run of main() with the session's uploaded buffer, Grid and
\* widget values.  A run that ends with st.stop() drops the values of the
\* widgets it did not show; a run that raises keeps them.
Main(up, w, sel) ==
  IF up = None THEN [view |-> EmptyView("stopped"), widgets |-> DefaultWidgets, wrg |-> w]
  ELSE IF w = None THEN [view |-> EmptyView("err_nogrid"), widgets |-> sel, wrg |-> w]
  ELSE
    LET wrg == w[1]
        variable == sel.variable
        v1 == [EmptyView("ok") EXCEPT !.attrs = Some(Attrs(wrg)), !.variable = Some(variable)]
    IN  IF IsDirectional(variable) /\ SliderOptions(wrg) = {}
        THEN [view |-> [v1 EXCEPT !.status = "err_sector"], widgets |-> sel, wrg |-> w]
        ELSE
          LET sector == IF ~IsDirectional(variable) THEN None
                        ELSE IF sel.sector # None /\ sel.slider = SliderOptions(wrg)
                             THEN sel.sector
                             ELSE Some(0)
              slider == IF IsDirectional(variable) THEN Some(SliderOptions(wrg)) ELSE None
              imdata == Extract(wrg, variable, IF sector = None THEN 0 ELSE sector[1])
              image == [data |-> imdata, origin |-> "lower", extent |-> wrg.extent]
              v2 == [v1 EXCEPT !.slider = slider, !.sector = sector,
                               !.image = Some(image), !.picker = TRUE]
              sel2 == [sel EXCEPT !.sector = sector,
                                  !.slider = IF slider = None THEN {} ELSE slider[1]]
          IN  IF wrg.dtype \notin SupportedDtypes
              THEN [view |-> [v2 EXCEPT !.status = "err_dtype"], widgets |-> sel2, wrg |-> w]
              ELSE
                LET export == Export(wrg, imdata, sel.crs)
                    default == NameTable[VarIndex(variable) + 1][sector]
                    file_name == IF sel.fname # None /\ sel.fdefault = default
                                 THEN sel.fname[1] ELSE default
                IN  [view |-> [v2 EXCEPT !.default_name = Some(default),
                                         !.file_name = Some(file_name),
                                         !.download = Some([data |-> export,
                                                            file_name |-> file_name])],
                     widgets |-> [sel2 EXCEPT !.fname = Some(file_name), !.fdefault = default],
                     wrg |-> Some(GridAfterExport(wrg, imdata))]

\* the callback without its test for a buffer
OnWrgUploadedUnguarded(up, w) ==
  IF up # None /\ up[1].ok
  THEN [raised |-> FALSE, wrg |-> Some(GridTable[up[1]]), parses |-> 1]
  ELSE [raised |-> TRUE, wrg |-> w, parses |-> 1]

\* the callback parsing the buffer and not storing the Grid
OnWrgUploadedNotStored(up, w) ==
  IF up # None
  THEN [raised |-> ~up[1].ok, wrg |-> w, parses |-> 1]
  ELSE [raised |-> FALSE, wrg |-> w, parses |-> 0]

\* lines 151-153: the upload callback.  raised: WRG.from_file raised on a
\* malformed buffer; parses: the calls of WRG.from_file it made.
OnWrgUploaded(up, w) ==
  IF up # None
  THEN IF up[1].ok
       THEN [raised |-> FALSE, wrg |-> Some(GridTable[up[1]]), parses |-> 1]
       ELSE [raised |-> TRUE, wrg |-> w, parses |-> 1]
  ELSE [raised |-> FALSE, wrg |-> w, parses |-> 0]

\* ------------------------------------------------------------- state
VARIABLES
  uploaded,   \* st.session_state.uploaded: the uploaded buffer, if any
  wrg,        \* st.session_state.wrg: the Grid, if the key is set
  widgets,    \* the values of the other widgets
  view,       \* what the last interaction showed
  event,      \* the last interaction
  parsed,     \* the calls of WRG.from_file the last interaction made
  after_failure  \* the last interaction was an upload made while the view showed a failure

vars == <<uploaded, wrg, widgets, view, event, parsed, after_failure>>

\* the ways a run fails: the parser raised in the callback, the session holds
\* no Grid, the slider got no options, the writer refused the dtype
Failures == {"err_parse", "err_nogrid", "err_sector", "err_dtype"}

\* A new session: the first run of main() with nothing uploaded.
Init ==
  /\ uploaded = None
  /\ wrg = None
  /\ widgets = DefaultWidgets
  /\ view = EmptyView("stopped")
  /\ event = "start"
  /\ parsed = 0
  /\ after_failure = FALSE

\* One interaction: the changed widget values are stored, the uploader's
\* on_change callback runs if its value changed (line 37), and, unless the
\* callback raised, main() runs.
Interact(ev, up, sel, changed) ==
  LET cb == IF changed THEN OnWrgUploaded(up, wrg)
            ELSE [raised |-> FALSE, wrg |-> wrg, parses |-> 0]
      out == Main(up, cb.wrg, sel)
  IN  /\ uploaded' = up
      /\ event' = ev
      /\ parsed' = cb.parses
      /\ after_failure' = (ev = "upload" /\ view.status \in Failures)
      /\ IF cb.raised
         THEN /\ view' = EmptyView("err_parse")
              /\ widgets' = sel
              /\ wrg' = cb.wrg
         ELSE /\ view' = out.view
              /\ widgets' = out.widgets
              /\ wrg' = out.wrg

\* the user uploads a file (lines 36-38)
Upload(f) == Interact("upload", Some(f), widgets, TRUE)

\* the user removes the uploaded file (lines 36-40)
RemoveFile ==
  /\ uploaded # None
  /\ Interact("remove", None, widgets, TRUE)

\* the user picks another variable (lines 58-70)
SelectVariable(v) ==
  /\ view.variable # None
  /\ v # widgets.variable
  /\ Interact("variable", uploaded, [widgets EXCEPT !.variable = v], FALSE)

\* the user moves the sector slider (lines 85, 88, 91, 94)
SelectSector(s) ==
  /\ view.slider # None
  /\ s \in view.slider[1]
  /\ Some(s) # view.sector
  /\ Interact("sector", uploaded, [widgets EXCEPT !.sector = Some(s)], FALSE)

\* the user picks a CRS, or clears the picker (lines 102-107)
SelectCRS(c) ==
  /\ view.picker
  /\ c # widgets.crs
  /\ Interact("crs", uploaded, [widgets EXCEPT !.crs = c], FALSE)

\* the user edits the file name (line 136)
EditedNames == { <<"a", ".", "t", "i", "f">> }

EditFilename(t) ==
  /\ view.file_name # None
  /\ Some(t) # view.file_name
  /\ Interact("filename", uploaded, [widgets EXCEPT !.fname = Some(t)], FALSE)

\* the user reruns the script without changing a widget
Rerun == Interact("rerun", uploaded, widgets, FALSE)

Next ==
  \/ \E f \in Files : Upload(f)
  \/ RemoveFile
  \/ \E v \in { VariableOptions[i] : i \in 1..Len(VariableOptions) } : SelectVariable(v)
  \/ \E s \in 0..MaxSectors : SelectSector(s)
  \/ \E c \in {None} \cup { Some(e) : e \in CrsCatalogue } : SelectCRS(c)
  \/ \E t \in EditedNames : EditFilename(t)
  \/ Rerun

Spec == Init /\ [][Next]_vars

\* A session in which a grid of one cell and many sectors is uploaded and then
\* every variable and sector is picked.
NextName ==
  \/ Upload(ManySectorsFile)
  \/ \E v \in { VariableOptions[i] : i \in 1..Len(VariableOptions) } : SelectVariable(v)
  \/ \E s \in 0..(NameSectors - 1) : SelectSector(s)
  \/ Rerun

SpecName == Init /\ [][NextName]_vars

\* ------------------------------------------------------------- properties
\* the export file the last interaction offered for download
Offered == view.download[1].data

Abs(x) == IF x < 0 THEN 0 - x ELSE x

\* C1: whenever an export file is offered, row r of its band 1 is row ny-1-r of
\* the selected array for every r in [0, ny), column for column; its row 0 is the
\* array's last row, and reading the band back and reversing its rows gives the
\* selected array again.
C1_ExportRowsReversed ==
  view.download # None =>
    LET a == view.image[1].data
        b == Offered.band1
        ny == wrg[1].ny
        nx == wrg[1].nx
    IN  /\ DOMAIN b = 0..(ny - 1)
        /\ \A r \in 0..(ny - 1) :
             /\ DOMAIN b[r] = 0..(nx - 1)
             /\ \A c \in 0..(nx - 1) : b[r][c] = a[(ny - 1) - r][c]
        /\ b[0] = a[ny - 1]
        /\ [r \in 0..(ny - 1) |-> b[(ny - 1) - r]] = a

C1_Witness ==
  /\ view.download # None
  /\ wrg[1].ny >= 2
  /\ wrg[1].nx >= 2
  /\ view.sector = Some(1)

\* C2: whenever an export file is offered, its transform maps pixel (0, 0) to
\* exactly (left, top) and pixel (nx-1, ny-1) to a point within one cell size
\* of right in x and of bottom in y.
C2_TransformCorners ==
  view.download # None =>
    LET g == wrg[1]
        left == g.extent[1]
        right == g.extent[2]
        bottom == g.extent[3]
        top == g.extent[4]
        t == Offered.transform
        last == AffineApply(t, g.nx - 1, g.ny - 1)
    IN  /\ AffineApply(t, 0, 0) = <<left, top>>
        /\ Abs(last[1] - right) <= g.cell_size
        /\ Abs(last[2] - bottom) <= g.cell_size

C2_Witness ==
  /\ view.download # None
  /\ wrg[1].ny >= 2
  /\ wrg[1].nx >= 2
  /\ wrg[1].cell_size >= 2

\* C3: the default file name is the variable's name in lower case with "_"
\* for each run of whitespace, then ".tif" for the four variables without
\* sectors, and "_", the sector in decimal with at least two digits (zeros on
\* the left), and ".tif" for the four directional ones.
C3_Slug(variable) ==
  CASE variable = Elevation -> <<"e","l","e","v","a","t","i","o","n">>
    [] variable = GlobalScale -> <<"g","l","o","b","a","l","_","s","c","a","l","e">>
    [] variable = GlobalShape -> <<"g","l","o","b","a","l","_","s","h","a","p","e">>
    [] variable = GlobalSpeed -> <<"g","l","o","b","a","l","_","s","p","e","e","d">>
    [] variable = DirectionalScale ->
         <<"d","i","r","e","c","t","i","o","n","a","l","_","s","c","a","l","e">>
    [] variable = DirectionalShape ->
         <<"d","i","r","e","c","t","i","o","n","a","l","_","s","h","a","p","e">>
    [] variable = DirectionalSpeed ->
         <<"d","i","r","e","c","t","i","o","n","a","l","_","s","p","e","e","d">>
    [] variable = DirectionalFrequency ->
         <<"d","i","r","e","c","t","i","o","n","a","l","_","f","r","e","q","u","e","n","c","y">>

C3_TwoDigits(k) ==
  IF k < 10 THEN <<"0", Digits[k + 1]>>
  ELSE IF k < 100 THEN <<Digits[(k \div 10) + 1], Digits[(k % 10) + 1]>>
  ELSE <<Digits[(k \div 100) + 1], Digits[((k \div 10) % 10) + 1], Digits[(k % 10) + 1]>>

C3_DefaultFileName ==
  view.default_name # None =>
    LET variable == view.variable[1]
        name == view.default_name[1]
    IN  /\ variable \in {Elevation, GlobalScale, GlobalShape, GlobalSpeed} =>
             /\ view.sector = None
             /\ name = C3_Slug(variable) \o <<".","t","i","f">>
        /\ variable \in {DirectionalScale, DirectionalShape, DirectionalSpeed,
                          DirectionalFrequency} =>
             /\ view.sector # None
             /\ name = C3_Slug(variable) \o <<"_">> \o C3_TwoDigits(view.sector[1])
                         \o <<".","t","i","f">>
        /\ variable = Elevation =>
             name = <<"e","l","e","v","a","t","i","o","n",".","t","i","f">>
        /\ (variable = DirectionalSpeed /\ view.sector = Some(3)) =>
             name = <<"d","i","r","e","c","t","i","o","n","a","l","_","s","p","e","e","d",
                      "_","0","3",".","t","i","f">>

C3_Witness ==
  /\ view.variable = Some(DirectionalFrequency)
  /\ view.sector = Some(100)
  /\ view.default_name # None

\* C4: an offered export file has no CRS tag exactly when no CRS is picked; with
\* a CRS picked its tag is the picked catalogue entry's authority and code; and
\* picking, changing or clearing the CRS changes nothing else in the file
\* (pixels, transform, size, dtype).
C4_CrsTagOnly ==
  /\ [](view.download # None =>
          /\ (Offered.crs = None) <=> (widgets.crs = None)
          /\ widgets.crs # None =>
               /\ widgets.crs[1] \in CrsCatalogue
               /\ Offered.crs = Some([authority |-> widgets.crs[1].auth_name,
                                      code |-> widgets.crs[1].code]))
  /\ [][(event' = "crs" /\ view.download # None /\ view'.download # None) =>
          /\ Offered'.band1 = Offered.band1
          /\ Offered'.transform = Offered.transform
          /\ Offered' = [Offered EXCEPT !.crs = Offered'.crs]
          /\ view'.image = view.image]_vars

C4_Witness ==
  /\ event = "crs"
  /\ view.download # None
  /\ Offered.crs # None
  /\ wrg[1].ny >= 2

\* C5: in every view whose run reached the raster, the sector slider is shown
\* exactly when the selected variable is one of the four directional ones, and
\* for the other four there is no slider and the sector is None.
C5_SliderIffDirectional ==
  view.image # None =>
    LET variable == view.variable[1]
        directional == variable \in {DirectionalScale, DirectionalShape, DirectionalSpeed,
                                     DirectionalFrequency}
    IN  /\ (view.slider # None) <=> directional
        /\ directional => view.sector # None
        /\ variable \in {Elevation, GlobalScale, GlobalShape, GlobalSpeed} =>
             (view.slider = None /\ view.sector = None)

C5_Witness ==
  /\ view.image # None
  /\ view.variable = Some(DirectionalFrequency)
  /\ view.slider # None
  /\ event = "variable"

\* C6: a slider that is shown offers exactly the sectors 0 .. nsectors-1 of the
\* Grid in use, the user can move it to each of them, moving it to s makes s the
\* sector of the view, and the array shown and exported for sector s is slice s
\* of the 3-D array of the selected variable.
C6_Array3D(g, variable) ==
  CASE variable = DirectionalScale -> g.scale
    [] variable = DirectionalShape -> g.shape
    [] variable = DirectionalSpeed -> g.speed
    [] variable = DirectionalFrequency -> g.freq

C6_SectorSlice ==
  /\ [](view.slider # None =>
          LET g == wrg[1]
              s == view.sector[1]
              a == C6_Array3D(g, view.variable[1])
          IN  /\ view.slider[1] = { k \in 0..(MaxSectors + NameSectors) : k < g.nsectors }
              /\ s \in view.slider[1]
              /\ \A k \in view.slider[1] \ {s} : ENABLED SelectSector(k)
              /\ \A r \in 0..(g.ny - 1) : \A c \in 0..(g.nx - 1) :
                   /\ view.image[1].data[r][c] = a[r][c][s]
                   /\ view.download # None => Offered.band1[(g.ny - 1) - r][c] = a[r][c][s])
  /\ [][\A k \in 0..(MaxSectors + NameSectors) : SelectSector(k) => view'.sector = Some(k)]_vars

C6_Witness ==
  /\ event = "sector"
  /\ view.sector = Some(1)
  /\ view.download # None
  /\ wrg[1].ny >= 2

\* C7: an interaction other than an upload leaves the Grid in session state as
\* it was, and the attribute table it shows reports that Grid's hub height, nx,
\* ny, nsectors and extent, the same as the table shown before it.
C7_GridUnchanged ==
  [][event' \in {"variable", "sector", "crs", "filename", "rerun", "remove"} =>
       /\ wrg' = wrg
       /\ view'.attrs # None =>
            view'.attrs[1] = [hub_height |-> wrg[1].hub_height, width |-> wrg[1].nx,
                              height |-> wrg[1].ny, nsectors |-> wrg[1].nsectors,
                              extent |-> wrg[1].extent]
       /\ (view.attrs # None /\ view'.attrs # None) => view'.attrs = view.attrs]_vars

C7_Witness ==
  /\ event = "filename"
  /\ view.download # None
  /\ wrg[1].nx # wrg[1].ny
  /\ wrg[1].ny >= 2

\* C8: WRG.from_file is called once in an interaction that uploads a buffer
\* and in no other; a successful parse is stored under the key wrg; every other
\* interaction, the removal of the file among them, parses nothing and leaves
\* the stored Grid in place.
C8_ParseOncePerUpload ==
  /\ [](/\ parsed \in {0, 1}
        /\ (parsed = 1) <=> (event = "upload")
        /\ (event = "upload" /\ view.status # "err_parse") =>
             wrg = Some(FromFile(uploaded[1])))
  /\ [][event' # "upload" => (parsed' = 0 /\ wrg' = wrg)]_vars
  /\ [][event' = "remove" => (uploaded' = None /\ parsed' = 0 /\ wrg' = wrg)]_vars

C8_Witness ==
  /\ event = "remove"
  /\ wrg # None
  /\ parsed = 0

\* a view with the attribute table, the raster and the download of file f
C9_FullViewOf(f) ==
  /\ view'.status = "ok"
  /\ wrg' = Some(FromFile(f))
  /\ view'.attrs = Some(Attrs(FromFile(f)))
  /\ view'.image # None
  /\ view'.image[1].extent = GridExtent(f)
  /\ view'.download # None
  /\ view'.download[1].data.width = f.nx
  /\ view'.download[1].data.height = f.ny

C10_GridIsCurrent ==
  view.status \notin {"stopped", "err_parse"} =>
    /\ wrg # None
    /\ uploaded # None
    /\ uploaded[1].ok
    /\ wrg = Some(FromFile(uploaded[1]))

====
